---- MODULE Spec2Model ----
(***************************************************************************)
(* PDF Translator (translatorv3.py): the Tk event loop, the worker thread  *)
(* started by translate_pdf, and the acquisition stage                     *)
(* extract_text_from_pdf.                                                  *)
(*                                                                         *)
(* Threads.  The event loop (main thread) runs one handler or one          *)
(* master.after callback at a time.  A worker thread runs                  *)
(* process_translation; its statements interleave with the event loop.     *)
(* master.after(0, f) appends f to the timer queue, which Tcl serves in    *)
(* the order of registration.                                              *)
(*                                                                         *)
(* Texts are sequences of character tokens: "a" and "o" are non-blank      *)
(* characters (embedded text, recognized text), " " is a blank, "\n" the   *)
(* line break.  Progress values are fractions <<n, d>> (n/d), compared by  *)
(* cross-multiplication: Python computes (i / num_pages) * 50 in binary    *)
(* floating point, whose rounding is monotone and exact for i = num_pages. *)
(* The message boxes of a run (its success box, its error box) are         *)
(* recorded in `dialogs` when they are raised.  The boxes of the other     *)
(* handlers (no file selected, unreadable file, preview and save results)  *)
(* are shown and dismissed without a record: a box changes no program      *)
(* state.                                                                  *)
(***************************************************************************)
EXTENDS Integers, Sequences, FiniteSets, TLC

\* ------------------------------------------------------------------ bounds
MaxPages == 2

MaxRuns == 2

\* ------------------------------------------------------------- basic values
NL == "\n"

Normal == "normal"

Disabled == "disabled"

NoFile == [readable |-> FALSE, name |-> "None", pages |-> <<>>]

Frac(n, d) == <<n, d>>

Whole(n) == <<n, 1>>

FracLeq(a, b) == a[1] * b[2] <= b[1] * a[2]

FracEq(a, b) == a[1] * b[2] = b[1] * a[2]

\* str.strip() is non-empty: some character is neither a blank nor a line break
NonBlank(s) == \E k \in 1..Len(s) : s[k] \notin {" ", NL}

\* A page of a document: what page.extract_text() returns, what
\* convert_from_path does for that page, what image_to_string does.
DirectTexts == {"None", "", " ", "a"}

RasterOutcomes == {"image", "nolist", "raise"}

OcrOutcomes == {"o", "", " ", "raise"}

DirectValue(p) ==
    CASE p.direct = "a" -> <<"a">>
      [] p.direct = " " -> <<" ">>
      [] OTHER -> <<>>

\* Mutant: the direct text is never accepted.
DirectUsableNever(p) == FALSE

\* `page_text and page_text.strip()`
DirectUsable(p) == p.direct # "None" /\ NonBlank(DirectValue(p))

OcrValue(p) ==
    CASE p.ocr = "o" -> <<"o">>
      [] p.ocr = " " -> <<" ">>
      [] OTHER -> <<>>

DirectPage == [direct |-> "a", raster |-> "image", ocr |-> "o"]

\* Every page with blank direct text, by the behaviour of its fallback.
BlankPages ==
    { [direct |-> d, raster |-> r, ocr |-> o] :
        d \in DirectTexts \ {"a"}, r \in RasterOutcomes, o \in OcrOutcomes }

AllPages == {DirectPage} \cup
    { p \in BlankPages : p.raster # "image" => p.ocr = "o" }

SeqsUpTo(S, n) == UNION { [1..k -> S] : k \in 0..n }

AllDocs == { [readable |-> TRUE, pages |-> ps, name |-> "pdf"] : ps \in SeqsUpTo(AllPages, MaxPages) }

\* The files the file dialog of the session offers: a scanned first page
\* followed by text pages, a document whose last page cannot be rasterized,
\* a scanned page without recognizable text, and a file that is no PDF.
ScannedPage == [direct |-> "None", raster |-> "image", ocr |-> "o"]

BrokenPage == [direct |-> "", raster |-> "raise", ocr |-> "o"]

EmptyScan == [direct |-> " ", raster |-> "image", ocr |-> ""]

GoodDoc == [readable |-> TRUE, name |-> "good.pdf",
            pages |-> [k \in 1..MaxPages |-> IF k = 1 THEN ScannedPage ELSE DirectPage]]

BadDoc == [readable |-> TRUE, name |-> "bad.pdf",
           pages |-> [k \in 1..MaxPages |-> IF k = MaxPages THEN BrokenPage ELSE DirectPage]]

BlankDoc == [readable |-> TRUE, name |-> "blank.pdf", pages |-> <<EmptyScan>>]

CorruptFile == [readable |-> FALSE, name |-> "corrupt.pdf", pages |-> <<>>]

Files == {GoodDoc, BadDoc, BlankDoc, CorruptFile}

\* ------------------------------------------- extract_text_from_pdf, per page
\* Mutant: the progress counts the pages still to do.
PageProgressRemaining(i, N) == Frac((N - i + 1) * 50, N)

\* Mutant: the progress uses the 0-based page index.
PageProgressZeroBased(i, N) == Frac((i - 1) * 50, N)

\* (i / num_pages) * 50
PageProgress(i, N) == Frac(i * 50, N)

\* `if images:` -- an empty list of images is falsy
HasImage(p) == p.raster = "image"

OcrCause(p) == IF p.raster = "raise" THEN "convert_from_path failed" ELSE "image_to_string failed"

\* Mutant: the message carries the 0-based page index.
OcrErrorZeroBased(i, cause) == <<"Error during OCR on page ", ToString(i - 1), ": ", cause>>

\* f"Error during OCR on page {i}: " + str(ocr_e)
OcrError(i, cause) == <<"Error during OCR on page ", ToString(i), ": ", cause>>

\* "Error extracting text from PDF: " + str(e)
ExtractError(inner) == <<"Error extracting text from PDF: ">> \o inner

NoTextError == <<"No text could be extracted from the PDF.">>

OpenError == <<"cannot open file">>

\* One iteration of the loop over reader.pages, before the progress callback:
\* the text appended for page p, the collaborators invoked, and the error
\* raised (an empty error: the iteration completed).
PageBody(p, i) ==
    IF DirectUsable(p)
    THEN [add |-> DirectValue(p) \o <<NL>>, rast |-> <<>>, ocr |-> <<>>, err |-> <<>>]
    ELSE IF p.raster = "raise"
    THEN [add |-> <<>>, rast |-> <<i>>, ocr |-> <<>>, err |-> OcrError(i, OcrCause(p))]
    ELSE IF ~HasImage(p)
    THEN [add |-> <<>>, rast |-> <<i>>, ocr |-> <<>>, err |-> <<>>]
    ELSE IF p.ocr = "raise"
    THEN [add |-> <<>>, rast |-> <<i>>, ocr |-> <<i>>, err |-> OcrError(i, OcrCause(p))]
    ELSE [add |-> OcrValue(p) \o <<NL>>, rast |-> <<i>>, ocr |-> <<i>>, err |-> <<>>]

\* Mutant: the blank check after the loop is missing.
ExtractReturnsAnything(text) == TRUE

\* `if not text.strip(): raise` -- the text is returned when this holds
ExtractReturns(text) == NonBlank(text)

\* ------------------------------------------------- checkpoints of a run
StartProgress == 0

\* Mutant: the checkpoint after acquisition is off by one.
PostAcquisitionProgressOff == 50 - 1

PostAcquisitionProgress == 50

PostTranslationProgress == 75

PostRenderProgress == 100

ErrorProgress == 0

\* Mutant: translate_pdf leaves the Translate button enabled.
TranslateButtonLeftEnabled == Normal

\* translate_pdf: self.translate_button.config(state=tk.DISABLED)
TranslateButtonOnStart == Disabled

\* Mutant: translate_pdf leaves the Save button as it is after a success.
SaveButtonLeftEnabled == Normal

\* translate_pdf: self.save_button.config(state=tk.DISABLED)
SaveButtonOnStart == Disabled

\* ------------------------------------------------------------------- state
VARIABLES
    input_pdf_path,            \* the selected document, NoFile for None
    original_current_page, original_total_pages,
    translated_current_page, translated_total_pages,
    translate_button, save_button,
    prev_orig_button, next_orig_button,
    prev_trans_button, next_trans_button,
    progress_bar,              \* the value of the progress bar, a fraction
    orig_page_label, trans_page_label,   \* <<page, total>> of "Page p of t"
    afterQueue,                \* callbacks registered with master.after(0, ..)
    dialogs,                   \* message boxes raised so far
    callbackErrors,            \* runs whose callback raised inside Tk
    outFile,                   \* translated.pdf on disk
    evt,                       \* the handler the event loop is inside
    nruns,                     \* worker threads started so far
    worker,                    \* per run: the state of process_translation
    previewOverlap,            \* a preview read the output while it was written
    packages,                  \* the installed language packages, (from, to) pairs
    call                       \* the library-level call being executed, if any

vars == << input_pdf_path, original_current_page, original_total_pages,
           translated_current_page, translated_total_pages, translate_button,
           save_button, prev_orig_button, next_orig_button, prev_trans_button,
           next_trans_button, progress_bar, orig_page_label, trans_page_label,
           afterQueue, dialogs, callbackErrors, outFile, evt, nruns, worker,
           previewOverlap, packages, call >>

libVars == << packages, call >>

origVars == << original_current_page, original_total_pages, prev_orig_button,
               next_orig_button, orig_page_label >>

transVars == << translated_current_page, translated_total_pages, trans_page_label >>

buttonVars == << translate_button, save_button, prev_trans_button, next_trans_button >>

Runs == 1..MaxRuns

Idle == [op |-> "idle", tmp |-> 0]

NewWorker ==
    [ pc |-> "unborn", doc |-> NoFile, i |-> 0, text |-> <<>>, err |-> <<>>,
      eBound |-> FALSE, sent |-> <<>>, applied |-> <<>>, stages |-> <<>>,
      rast |-> <<>>, ocr |-> <<>>, prog |-> <<>>, contrib |-> <<>> ]

Callback(fn, value, state, run) ==
    [fn |-> fn, value |-> value, state |-> state, run |-> run]

ProgressCb(value, run) == Callback("progress", value, "", run)

Dialog(kind, msg, run) == [kind |-> kind, msg |-> msg, run |-> run]

\* required_pairs of install_required_language_pairs, in the order of the list
required_pairs ==
    << <<"ko", "en">>, <<"en", "ko">>, <<"de", "en">>, <<"en", "de">>,
       <<"zh", "en">>, <<"en", "zh">>, <<"es", "en">>, <<"en", "es">> >>

RequiredSet == {required_pairs[k] : k \in 1..Len(required_pairs)}

\* No library-level call is being followed.
NoCall == [fn |-> "none"]

\* PDFTranslatorApp.__init__
Init ==
    /\ input_pdf_path = NoFile
    /\ original_current_page = 1
    /\ original_total_pages = 0
    /\ translated_current_page = 1
    /\ translated_total_pages = 0
    /\ translate_button = Normal
    /\ save_button = Disabled
    /\ prev_orig_button = Disabled
    /\ next_orig_button = Disabled
    /\ prev_trans_button = Disabled
    /\ next_trans_button = Disabled
    /\ progress_bar = Whole(0)
    /\ orig_page_label = <<0, 0>>
    /\ trans_page_label = <<0, 0>>
    /\ afterQueue = <<>>
    /\ dialogs = {}
    /\ callbackErrors = {}
    /\ outFile = [pages |-> 0, writing |-> FALSE]
    /\ evt = Idle
    /\ nruns = 0
    /\ worker = [r \in Runs |-> NewWorker]
    /\ previewOverlap = FALSE
    /\ packages = RequiredSet
    /\ call = NoCall

\* ------------------------------------------------------- preview helpers
\* get_pdf_preview_image on the input document: the page exists and rasterizes
OriginalPreviewOk(doc, page) == doc.readable /\ page \in 1..Len(doc.pages)

\* display_original_preview(page): the label is set unless the preview raised
DisplayOriginalPreview(doc, page, total) ==
    /\ orig_page_label' = IF OriginalPreviewOk(doc, page) THEN <<page, total>> ELSE orig_page_label
    /\ dialogs' = dialogs

\* The outcomes of reading page `page` of the output file: a file that is
\* being written may or may not yield the page.
TranslatedPreviewOutcomes(page) ==
    IF outFile.writing THEN BOOLEAN ELSE {page \in 1..outFile.pages}

\* display_translated_preview(page)
DisplayTranslatedPreview(page) ==
    /\ previewOverlap' = (previewOverlap \/ outFile.writing)
    /\ \E ok \in TranslatedPreviewOutcomes(page) :
         /\ trans_page_label' = IF ok THEN <<page, translated_total_pages>> ELSE trans_page_label
         /\ dialogs' = dialogs

\* ------------------------------------------------ handlers of the event loop
\* select_pdf, with the file the dialog returned (a cancelled dialog changes
\* nothing)
SelectPdf(f) ==
    /\ evt = Idle
    /\ input_pdf_path' = f
    /\ IF ~f.readable
       THEN UNCHANGED << origVars, dialogs >>
       ELSE /\ original_total_pages' = Len(f.pages)
            /\ prev_orig_button' = IF Len(f.pages) > 1 THEN Normal ELSE Disabled
            /\ next_orig_button' = IF Len(f.pages) > 1 THEN Normal ELSE Disabled
            /\ original_current_page' = 1
            /\ DisplayOriginalPreview(f, 1, Len(f.pages))
    /\ UNCHANGED << transVars, buttonVars, progress_bar, afterQueue, callbackErrors,
                    outFile, evt, nruns, worker, previewOverlap >>
    /\ UNCHANGED libVars

PrevOriginalPage ==
    /\ evt = Idle
    /\ prev_orig_button = Normal
    /\ IF original_current_page > 1
       THEN /\ original_current_page' = original_current_page - 1
            /\ DisplayOriginalPreview(input_pdf_path, original_current_page - 1, original_total_pages)
       ELSE UNCHANGED << original_current_page, orig_page_label, dialogs >>
    /\ UNCHANGED << input_pdf_path, original_total_pages, prev_orig_button, next_orig_button,
                    transVars, buttonVars, progress_bar, afterQueue, callbackErrors,
                    outFile, evt, nruns, worker, previewOverlap >>
    /\ UNCHANGED libVars

NextOriginalPage ==
    /\ evt = Idle
    /\ next_orig_button = Normal
    /\ IF original_current_page < original_total_pages
       THEN /\ original_current_page' = original_current_page + 1
            /\ DisplayOriginalPreview(input_pdf_path, original_current_page + 1, original_total_pages)
       ELSE UNCHANGED << original_current_page, orig_page_label, dialogs >>
    /\ UNCHANGED << input_pdf_path, original_total_pages, prev_orig_button, next_orig_button,
                    transVars, buttonVars, progress_bar, afterQueue, callbackErrors,
                    outFile, evt, nruns, worker, previewOverlap >>
    /\ UNCHANGED libVars

\* prev_translated_page / next_translated_page.  The worker thread assigns
\* translated_current_page and translated_total_pages too, so the handler is
\* two steps: the test with the load of the attribute, then the store of the
\* new value with the preview.
PrevTranslatedLoad ==
    /\ evt = Idle
    /\ prev_trans_button = Normal
    /\ evt' = IF translated_current_page > 1
              THEN [op |-> "prev", tmp |-> translated_current_page]
              ELSE Idle
    /\ UNCHANGED << input_pdf_path, origVars, transVars, buttonVars, progress_bar,
                    afterQueue, dialogs, callbackErrors, outFile, nruns, worker,
                     previewOverlap >>
    /\ UNCHANGED libVars

NextTranslatedLoad ==
    /\ evt = Idle
    /\ next_trans_button = Normal
    /\ evt' = IF translated_current_page < translated_total_pages
              THEN [op |-> "next", tmp |-> translated_current_page]
              ELSE Idle
    /\ UNCHANGED << input_pdf_path, origVars, transVars, buttonVars, progress_bar,
                    afterQueue, dialogs, callbackErrors, outFile, nruns, worker,
                     previewOverlap >>
    /\ UNCHANGED libVars

TranslatedStore ==
    /\ evt.op \in {"prev", "next"}
    /\ translated_current_page' = IF evt.op = "prev" THEN evt.tmp - 1 ELSE evt.tmp + 1
    /\ DisplayTranslatedPreview(translated_current_page')
    /\ evt' = Idle
    /\ UNCHANGED << input_pdf_path, origVars, translated_total_pages, buttonVars,
                    progress_bar, afterQueue, callbackErrors, outFile, nruns, worker >>
    /\ UNCHANGED libVars

\* save_translated_pdf, with a path chosen in the dialog
SaveTranslatedPdf ==
    /\ evt = Idle
    /\ save_button = Normal
    /\ UNCHANGED << dialogs, input_pdf_path, origVars, transVars, buttonVars, progress_bar,
                    afterQueue, callbackErrors, outFile, evt, nruns, worker,
                     previewOverlap >>
    /\ UNCHANGED libVars

\* translate_pdf without a selected file: the error box, and return
TranslatePdfNoFile ==
    /\ evt = Idle
    /\ translate_button = Normal
    /\ input_pdf_path = NoFile
    /\ UNCHANGED << dialogs, input_pdf_path, origVars, transVars, buttonVars, progress_bar,
                    afterQueue, callbackErrors, outFile, evt, nruns, worker,
                     previewOverlap >>
    /\ UNCHANGED libVars

\* The histories kept for a run (what it sent, what was applied, its boxes)
\* are records about the run, not program state: those of the runs that have
\* finished are dropped when a later run starts.
Forget(w) == IF w.pc = "done" THEN [NewWorker EXCEPT !.pc = "done"] ELSE w

\* translate_pdf: disable the buttons, update_progress(0), start the thread
TranslatePdf ==
    /\ evt = Idle
    /\ translate_button = Normal
    /\ input_pdf_path # NoFile
    /\ nruns < MaxRuns
    /\ nruns' = nruns + 1
    /\ translate_button' = TranslateButtonOnStart
    /\ save_button' = SaveButtonOnStart
    /\ afterQueue' = Append(afterQueue, ProgressCb(Whole(StartProgress), nruns + 1))
    /\ worker' = [r \in Runs |->
         IF r = nruns + 1
         THEN [NewWorker EXCEPT !.pc = "start", !.sent = <<Whole(StartProgress)>>]
         ELSE Forget(worker[r])]
    /\ dialogs' = {d \in dialogs : worker[d.run].pc # "done"}
    /\ callbackErrors' = {r \in callbackErrors : worker[r].pc # "done"}
    /\ UNCHANGED << input_pdf_path, origVars, transVars, prev_trans_button,
                    next_trans_button, progress_bar, outFile, evt, previewOverlap >>
    /\ UNCHANGED libVars

\* ------------------------------------- callbacks run by the event loop
Ready(fn) == evt = Idle /\ afterQueue # <<>> /\ Head(afterQueue).fn = fn

\* update_progress: lambda: self.progress_bar.config(value=value)
ApplyProgress ==
    /\ Ready("progress")
    /\ progress_bar' = Head(afterQueue).value
    /\ worker' = [worker EXCEPT ![Head(afterQueue).run].applied = Append(@, Head(afterQueue).value)]
    /\ afterQueue' = Tail(afterQueue)
    /\ UNCHANGED << input_pdf_path, origVars, transVars, buttonVars, dialogs,
                    callbackErrors, outFile, evt, nruns, previewOverlap >>
    /\ UNCHANGED libVars

SuccessMessage == <<"Translated PDF saved as ", "translated.pdf">>

\* lambda: messagebox.showinfo("Success", ...)
ShowSuccess ==
    /\ Ready("showinfo")
    /\ dialogs' = dialogs \cup {Dialog("showinfo", SuccessMessage, Head(afterQueue).run)}
    /\ afterQueue' = Tail(afterQueue)
    /\ UNCHANGED << input_pdf_path, origVars, transVars, buttonVars, progress_bar,
                    callbackErrors, outFile, evt, nruns, worker, previewOverlap >>
    /\ UNCHANGED libVars

\* lambda: messagebox.showerror("Error", str(e)) -- e is the variable of
\* process_translation's except clause, unbound once the clause is left; the
\* lambda then raises NameError inside Tk and no box is shown.
ShowError ==
    /\ Ready("showerror")
    /\ IF worker[Head(afterQueue).run].eBound
       THEN /\ dialogs' = dialogs \cup {Dialog("showerror", worker[Head(afterQueue).run].err, Head(afterQueue).run)}
            /\ UNCHANGED callbackErrors
       ELSE /\ callbackErrors' = callbackErrors \cup {Head(afterQueue).run}
            /\ UNCHANGED dialogs
    /\ afterQueue' = Tail(afterQueue)
    /\ UNCHANGED << input_pdf_path, origVars, transVars, buttonVars, progress_bar,
                    outFile, evt, nruns, worker, previewOverlap >>
    /\ UNCHANGED libVars

\* master.after(0, self.display_translated_preview, page)
PreviewCallback ==
    /\ Ready("display_translated_preview")
    /\ DisplayTranslatedPreview(Head(afterQueue).value[1])
    /\ afterQueue' = Tail(afterQueue)
    /\ UNCHANGED << input_pdf_path, origVars, translated_current_page,
                    translated_total_pages, buttonVars, progress_bar, callbackErrors,
                    outFile, evt, nruns, worker >>
    /\ UNCHANGED libVars

\* lambda: self.prev_trans_button.config(state=...)
ConfigPrevTrans ==
    /\ Ready("prev_trans_button")
    /\ prev_trans_button' = Head(afterQueue).state
    /\ afterQueue' = Tail(afterQueue)
    /\ UNCHANGED << input_pdf_path, origVars, transVars, translate_button, save_button,
                    next_trans_button, progress_bar, dialogs, callbackErrors, outFile,
                    evt, nruns, worker, previewOverlap >>
    /\ UNCHANGED libVars

\* lambda: self.next_trans_button.config(state=...)
ConfigNextTrans ==
    /\ Ready("next_trans_button")
    /\ next_trans_button' = Head(afterQueue).state
    /\ afterQueue' = Tail(afterQueue)
    /\ UNCHANGED << input_pdf_path, origVars, transVars, translate_button, save_button,
                    prev_trans_button, progress_bar, dialogs, callbackErrors, outFile,
                    evt, nruns, worker, previewOverlap >>
    /\ UNCHANGED libVars

\* lambda: self.save_button.config(state=tk.NORMAL)
ConfigSave ==
    /\ Ready("save_button")
    /\ save_button' = Head(afterQueue).state
    /\ afterQueue' = Tail(afterQueue)
    /\ UNCHANGED << input_pdf_path, origVars, transVars, translate_button,
                    prev_trans_button, next_trans_button, progress_bar, dialogs,
                    callbackErrors, outFile, evt, nruns, worker, previewOverlap >>
    /\ UNCHANGED libVars

\* lambda: self.translate_button.config(state=tk.NORMAL)
ConfigTranslate ==
    /\ Ready("translate_button")
    /\ translate_button' = Head(afterQueue).state
    /\ afterQueue' = Tail(afterQueue)
    /\ UNCHANGED << input_pdf_path, origVars, transVars, save_button,
                    prev_trans_button, next_trans_button, progress_bar, dialogs,
                    callbackErrors, outFile, evt, nruns, worker, previewOverlap >>
    /\ UNCHANGED libVars

\* ------------------------------------- the worker thread, process_translation
guiVars == << origVars, buttonVars, progress_bar, dialogs, callbackErrors, evt, nruns >>

\* self.update_progress(value) called by run r
UpdateProgress(w, r, value) == [w EXCEPT ![r].sent = Append(@, value)]

\* The thread starts: extract_text_from_pdf(self.input_pdf_path, ...) opens
\* the file.
WorkerBegin(r) ==
    /\ worker[r].pc = "start"
    /\ worker' = [worker EXCEPT
         ![r].doc = input_pdf_path,
         ![r].stages = Append(@, "extract"),
         ![r].i = 1,
         ![r].err = IF input_pdf_path.readable THEN <<>> ELSE ExtractError(OpenError),
         ![r].pc = IF input_pdf_path.readable THEN "page" ELSE "except"]
    /\ UNCHANGED << input_pdf_path, guiVars, transVars, afterQueue, outFile,
                     previewOverlap >>
    /\ UNCHANGED libVars

\* One iteration of `for i, page in enumerate(reader.pages, start=1)`
ExtractPage(r) ==
    /\ worker[r].pc = "page"
    /\ worker[r].i <= Len(worker[r].doc.pages)
    /\ LET w == worker[r]
           i == w.i
           N == Len(w.doc.pages)
           body == PageBody(w.doc.pages[i], i)
       IN IF body.err # <<>>
          THEN /\ worker' = [worker EXCEPT
                    ![r].rast = @ \o body.rast,
                    ![r].ocr = @ \o body.ocr,
                    ![r].err = ExtractError(body.err),
                    ![r].pc = "except"]
               /\ UNCHANGED afterQueue
          ELSE /\ worker' = [worker EXCEPT
                    ![r].rast = @ \o body.rast,
                    ![r].ocr = @ \o body.ocr,
                    ![r].text = @ \o body.add,
                    ![r].contrib = Append(@, [page |-> i, add |-> body.add]),
                    ![r].prog = Append(@, [page |-> i, value |-> PageProgress(i, N)]),
                    ![r].sent = Append(@, PageProgress(i, N)),
                    ![r].i = i + 1]
               /\ afterQueue' = Append(afterQueue, ProgressCb(PageProgress(i, N), r))
    /\ UNCHANGED << input_pdf_path, guiVars, transVars, outFile, previewOverlap >>
    /\ UNCHANGED libVars

\* After the loop: the blank check, the return, and update_progress(50)
ExtractEnd(r) ==
    /\ worker[r].pc = "page"
    /\ worker[r].i > Len(worker[r].doc.pages)
    /\ IF ExtractReturns(worker[r].text)
       THEN /\ worker' = [UpdateProgress(worker, r, Whole(PostAcquisitionProgress)) EXCEPT
                 ![r].stages = Append(@, "extract_ret"),
                 ![r].pc = "translate"]
            /\ afterQueue' = Append(afterQueue, ProgressCb(Whole(PostAcquisitionProgress), r))
       ELSE /\ worker' = [worker EXCEPT ![r].err = NoTextError, ![r].pc = "except"]
            /\ UNCHANGED afterQueue
    /\ UNCHANGED << input_pdf_path, guiVars, transVars, outFile, previewOverlap >>
    /\ UNCHANGED libVars

TranslationError == <<"Error during translation: ", "cause">>

RenderError == <<"Error creating translated PDF: ", "cause">>

\* translate_text(...) and update_progress(75); the stage returns or raises
TranslateText(r) ==
    /\ worker[r].pc = "translate"
    /\ \E ok \in BOOLEAN :
         IF ok
         THEN /\ worker' = [UpdateProgress(worker, r, Whole(PostTranslationProgress)) EXCEPT
                   ![r].stages = @ \o <<"translate", "translate_ret">>,
                   ![r].pc = "render"]
              /\ afterQueue' = Append(afterQueue, ProgressCb(Whole(PostTranslationProgress), r))
         ELSE /\ worker' = [worker EXCEPT
                   ![r].stages = Append(@, "translate"),
                   ![r].err = TranslationError,
                   ![r].pc = "except"]
              /\ UNCHANGED afterQueue
    /\ UNCHANGED << input_pdf_path, guiVars, transVars, outFile, previewOverlap >>
    /\ UNCHANGED libVars

\* create_translated_pdf(...) starts writing self.output_pdf_path
RenderBegin(r) ==
    /\ worker[r].pc = "render"
    /\ worker' = [worker EXCEPT ![r].stages = Append(@, "render"), ![r].pc = "rendering"]
    /\ outFile' = [outFile EXCEPT !.writing = TRUE]
    /\ UNCHANGED << input_pdf_path, guiVars, transVars, afterQueue, previewOverlap >>
    /\ UNCHANGED libVars

\* create_translated_pdf returns: update_progress(100) and the success box
RenderReturn(r) ==
    /\ worker[r].pc = "rendering"
    /\ \E n \in 1..MaxPages : outFile' = [pages |-> n, writing |-> FALSE]
    /\ worker' = [UpdateProgress(worker, r, Whole(PostRenderProgress)) EXCEPT
         ![r].stages = Append(@, "render_ret"),
         ![r].pc = "count"]
    /\ afterQueue' = afterQueue \o
         << ProgressCb(Whole(PostRenderProgress), r), Callback("showinfo", Whole(0), "", r) >>
    /\ UNCHANGED << input_pdf_path, guiVars, transVars, previewOverlap >>
    /\ UNCHANGED libVars

\* create_translated_pdf raises: the file is left as it was or unusable
RenderRaise(r) ==
    /\ worker[r].pc = "rendering"
    /\ \E n \in {outFile.pages, 0} : outFile' = [pages |-> n, writing |-> FALSE]
    /\ worker' = [worker EXCEPT ![r].err = RenderError, ![r].pc = "except"]
    /\ UNCHANGED << input_pdf_path, guiVars, transVars, afterQueue, previewOverlap >>
    /\ UNCHANGED libVars

\* with open(self.output_pdf_path) ...: self.translated_total_pages = ...
CountPages(r) ==
    /\ worker[r].pc = "count"
    /\ \E ok \in BOOLEAN :
         translated_total_pages' = IF ok /\ outFile.pages >= 1 THEN outFile.pages ELSE 1
    /\ worker' = [worker EXCEPT ![r].pc = "setpage"]
    /\ UNCHANGED << input_pdf_path, guiVars, translated_current_page, trans_page_label,
                    afterQueue, outFile, previewOverlap >>
    /\ UNCHANGED libVars

\* self.translated_current_page = 1
SetPage(r) ==
    /\ worker[r].pc = "setpage"
    /\ translated_current_page' = 1
    /\ worker' = [worker EXCEPT ![r].pc = "preview"]
    /\ UNCHANGED << input_pdf_path, guiVars, translated_total_pages, trans_page_label,
                    afterQueue, outFile, previewOverlap >>
    /\ UNCHANGED libVars

\* self.master.after(0, self.display_translated_preview, self.translated_current_page)
EnqueuePreview(r) ==
    /\ worker[r].pc = "preview"
    /\ afterQueue' = Append(afterQueue,
         Callback("display_translated_preview", Whole(translated_current_page), "", r))
    /\ worker' = [worker EXCEPT ![r].pc = "nav"]
    /\ UNCHANGED << input_pdf_path, guiVars, transVars, outFile, previewOverlap >>
    /\ UNCHANGED libVars

NavState(total) == IF total > 1 THEN Normal ELSE Disabled

\* The navigation buttons of the translated pane and the save button
EnqueueButtons(r) ==
    /\ worker[r].pc = "nav"
    /\ afterQueue' = afterQueue \o
         << Callback("prev_trans_button", Whole(0), NavState(translated_total_pages), r),
            Callback("next_trans_button", Whole(0), NavState(translated_total_pages), r),
            Callback("save_button", Whole(0), Normal, r) >>
    /\ worker' = [worker EXCEPT ![r].pc = "finally"]
    /\ UNCHANGED << input_pdf_path, guiVars, transVars, outFile, previewOverlap >>
    /\ UNCHANGED libVars

\* except Exception as e: self.master.after(0, lambda: showerror("Error", str(e)))
Except(r) ==
    /\ worker[r].pc = "except"
    /\ afterQueue' = Append(afterQueue, Callback("showerror", Whole(0), "", r))
    /\ worker' = [worker EXCEPT ![r].eBound = TRUE, ![r].pc = "except2"]
    /\ UNCHANGED << input_pdf_path, guiVars, transVars, outFile, previewOverlap >>
    /\ UNCHANGED libVars

\* self.update_progress(0), and the end of the except clause, which unbinds e
ExceptEnd(r) ==
    /\ worker[r].pc = "except2"
    /\ afterQueue' = Append(afterQueue, ProgressCb(Whole(ErrorProgress), r))
    /\ worker' = [UpdateProgress(worker, r, Whole(ErrorProgress)) EXCEPT
         ![r].eBound = FALSE,
         ![r].pc = "finally"]
    /\ UNCHANGED << input_pdf_path, guiVars, transVars, outFile, previewOverlap >>
    /\ UNCHANGED libVars

\* Mutant: the finally clause leaves the Translate button disabled.
TranslateButtonStaysDisabled == Disabled

\* The state the finally clause asks for: state=tk.NORMAL
TranslateButtonOnFinish == Normal

\* finally: self.master.after(0, lambda: self.translate_button.config(state=tk.NORMAL))
Finally(r) ==
    /\ worker[r].pc = "finally"
    /\ afterQueue' = Append(afterQueue,
                             Callback("translate_button", Whole(0), TranslateButtonOnFinish, r))
    /\ worker' = [worker EXCEPT ![r].pc = "done"]
    /\ UNCHANGED << input_pdf_path, guiVars, transVars, outFile, previewOverlap >>
    /\ UNCHANGED libVars

\* ---------------------------------------------------------- specifications
Next ==
    \/ \E f \in Files : SelectPdf(f)
    \/ PrevOriginalPage
    \/ NextOriginalPage
    \/ PrevTranslatedLoad
    \/ NextTranslatedLoad
    \/ TranslatedStore
    \/ SaveTranslatedPdf
    \/ TranslatePdfNoFile
    \/ TranslatePdf
    \/ ApplyProgress
    \/ ShowSuccess
    \/ ShowError
    \/ PreviewCallback
    \/ ConfigPrevTrans
    \/ ConfigNextTrans
    \/ ConfigSave
    \/ ConfigTranslate
    \/ \E r \in Runs : WorkerBegin(r)
    \/ \E r \in Runs : ExtractPage(r)
    \/ \E r \in Runs : ExtractEnd(r)
    \/ \E r \in Runs : TranslateText(r)
    \/ \E r \in Runs : RenderBegin(r)
    \/ \E r \in Runs : RenderReturn(r)
    \/ \E r \in Runs : RenderRaise(r)
    \/ \E r \in Runs : CountPages(r)
    \/ \E r \in Runs : SetPage(r)
    \/ \E r \in Runs : EnqueuePreview(r)
    \/ \E r \in Runs : EnqueueButtons(r)
    \/ \E r \in Runs : Except(r)
    \/ \E r \in Runs : ExceptEnd(r)
    \/ \E r \in Runs : Finally(r)

Spec == Init /\ [][Next]_vars

\* The acquisition stage alone: a run has just been started on any document
\* (the state after select_pdf and translate_pdf), and the worker executes
\* extract_text_from_pdf.
InitAcq ==
    /\ input_pdf_path \in AllDocs \cup {CorruptFile}
    /\ original_current_page = 1
    /\ original_total_pages = Len(input_pdf_path.pages)
    /\ translated_current_page = 1
    /\ translated_total_pages = 0
    /\ translate_button = TranslateButtonOnStart
    /\ save_button = SaveButtonOnStart
    /\ prev_orig_button = IF Len(input_pdf_path.pages) > 1 THEN Normal ELSE Disabled
    /\ next_orig_button = IF Len(input_pdf_path.pages) > 1 THEN Normal ELSE Disabled
    /\ prev_trans_button = Disabled
    /\ next_trans_button = Disabled
    /\ progress_bar = Whole(0)
    /\ orig_page_label = IF OriginalPreviewOk(input_pdf_path, 1)
                         THEN <<1, Len(input_pdf_path.pages)>> ELSE <<0, 0>>
    /\ trans_page_label = <<0, 0>>
    /\ afterQueue = <<ProgressCb(Whole(StartProgress), 1)>>
    /\ dialogs = {}
    /\ callbackErrors = {}
    /\ outFile = [pages |-> 0, writing |-> FALSE]
    /\ evt = Idle
    /\ nruns = 1
    /\ worker = [r \in Runs |->
         IF r = 1
         THEN [NewWorker EXCEPT !.pc = "start", !.sent = <<Whole(StartProgress)>>]
         ELSE NewWorker]
    /\ previewOverlap = FALSE
    /\ packages = RequiredSet
    /\ call = NoCall

NextAcq ==
    \/ \E r \in Runs : WorkerBegin(r)
    \/ \E r \in Runs : ExtractPage(r)
    \/ \E r \in Runs : ExtractEnd(r)

SpecAcq == InitAcq /\ [][NextAcq]_vars

\* ------------------------------------------------------------- claims
IsPrefix(a, b) == Len(a) <= Len(b) /\ a = SubSeq(b, 1, Len(a))

Active(r) == worker[r].pc \notin {"unborn", "done"}

Pending(r) == \E k \in 1..Len(afterQueue) : afterQueue[k].run = r

Failed(r) == worker[r].err # <<>>

\* C1: at most one worker thread is executing process_translation in any
\* reachable state, whatever the user clicks: a second one is never started
\* before the previous one has executed its last statement.
C1_SingleActiveRun == Cardinality({r \in Runs : Active(r)}) <= 1

\* C1 witness: a second run is executing after the first one has finished.
C1_Witness == worker[1].pc = "done" /\ worker[2].pc = "page"

StageOrder == <<"extract", "extract_ret", "translate", "translate_ret", "render", "render_ret">>

SuccessReported(r) ==
    \/ \E k \in 1..Len(afterQueue) : afterQueue[k].fn = "showinfo" /\ afterQueue[k].run = r
    \/ Dialog("showinfo", SuccessMessage, r) \in dialogs

\* C2: in every run the stage calls and returns occur in the order acquire,
\* translate, render, each at most once; translate_text is called only with a
\* non-blank extracted text, and success is reported only after
\* create_translated_pdf has returned.
C2_StageOrder ==
    \A r \in Runs :
        /\ IsPrefix(worker[r].stages, StageOrder)
        /\ Len(worker[r].stages) >= 3 => NonBlank(worker[r].text)
        /\ SuccessReported(r) => worker[r].stages = StageOrder

\* C2 witness: a run went through all three stages and its success box was shown.
C2_Witness ==
    \E r \in Runs :
        /\ worker[r].stages = StageOrder
        /\ Dialog("showinfo", SuccessMessage, r) \in dialogs

\* C3 (as claimed): once a failed run has finished and the event loop has run
\* all its callbacks, the error box with the error's message has been shown,
\* the last progress value applied is 0 and no success box was shown.
C3_FailureReported ==
    \A r \in Runs :
        (worker[r].pc = "done" /\ Failed(r) /\ ~Pending(r)) =>
            /\ Dialog("showerror", worker[r].err, r) \in dialogs
            /\ worker[r].applied # <<>>
            /\ FracEq(worker[r].applied[Len(worker[r].applied)], Whole(0))
            /\ Dialog("showinfo", SuccessMessage, r) \notin dialogs

\* C4: the value passed to the progress sink right after acquisition returns
\* is exactly 50, right after translation returns exactly 75, right after
\* rendering returns exactly 100; a successful run sends 0, the per-page
\* values, 50, 75, 100, and the values applied to the bar are a prefix of the
\* values sent.
C4_Checkpoints ==
    \A r \in Runs :
        LET w == worker[r]
            n == Len(w.prog)
        IN  /\ IsPrefix(w.applied, w.sent)
            /\ w.pc = "translate" => w.sent[Len(w.sent)] = Whole(50)
            /\ w.pc = "render" => w.sent[Len(w.sent)] = Whole(75)
            /\ w.pc = "count" => w.sent[Len(w.sent)] = Whole(100)
            /\ w.stages = StageOrder =>
                 /\ Len(w.sent) = n + 4
                 /\ SubSeq(w.sent, n + 2, n + 4) = <<Whole(50), Whole(75), Whole(100)>>

\* C4 witness: a successful run whose values have all been applied.
C4_Witness ==
    \E r \in Runs :
        /\ worker[r].stages = StageOrder
        /\ worker[r].applied = worker[r].sent
        /\ Len(worker[r].prog) = MaxPages

InRange(v, lo, hi) == FracLeq(Whole(lo), v) /\ FracLeq(v, Whole(hi))

NonDecreasing(a) == \A k \in 1..(Len(a) - 1) : FracLeq(a[k], a[k + 1])

\* C5 (as claimed): the values applied to the progress bar on behalf of a run
\* are non-decreasing and lie in [0,100].
C5_MonotoneProgress ==
    \A r \in Runs :
        /\ NonDecreasing(worker[r].applied)
        /\ \A k \in 1..Len(worker[r].applied) : InRange(worker[r].applied[k], 0, 100)

\* The reset update_progress(0) of the error handler has been sent by run r.
ResetSent(r) == Failed(r) /\ worker[r].pc \in {"finally", "done"}

\* C5 (amended): the values applied on behalf of a run lie in [0,100] and are
\* non-decreasing, except that the last value of a failed run is the reset
\* to 0 made by its error handler.
C5_MonotoneUntilReset ==
    \A r \in Runs :
        LET a == worker[r].applied
        IN  /\ \A k \in 1..Len(a) : InRange(a[k], 0, 100)
            /\ \A k \in 1..(Len(a) - 1) :
                 \/ FracLeq(a[k], a[k + 1])
                 \/ /\ ResetSent(r)
                    /\ k + 1 = Len(worker[r].sent)
                    /\ a[k + 1] = Whole(0)

\* C5 witness: a failed run whose bar went from a positive value back to 0.
C5_Witness ==
    \E r \in Runs :
        LET a == worker[r].applied
        IN  /\ Len(a) >= 3
            /\ a[Len(a)] = Whole(0)
            /\ ~FracLeq(a[Len(a) - 1], Whole(0))

TextPage(p) == p.direct = "a"

\* C6: while a document of N pages is acquired, the progress callback has been
\* invoked once for each page processed so far, in page order, the call for
\* page k with the value k/N*50; the values are non-decreasing, lie in [0,50],
\* and the value for page N is 50.
C6_PageProgress ==
    \A r \in Runs :
        LET w == worker[r]
            N == Len(w.doc.pages)
        IN  /\ w.pc \in {"page", "except", "translate"} => Len(w.prog) = w.i - 1
            /\ w.pc = "translate" => Len(w.prog) = N
            /\ \A k \in 1..Len(w.prog) :
                 /\ w.prog[k].page = k
                 /\ FracEq(w.prog[k].value, Frac(k * 50, N))
                 /\ InRange(w.prog[k].value, 0, 50)
                 /\ k > 1 => FracLeq(w.prog[k - 1].value, w.prog[k].value)
            /\ (N >= 1 /\ Len(w.prog) = N) => FracEq(w.prog[N].value, Whole(50))

\* C6 witness: every page of a document of MaxPages pages has been reported.
C6_Witness ==
    \E r \in Runs :
        /\ Len(worker[r].doc.pages) = MaxPages
        /\ Len(worker[r].prog) = MaxPages
        /\ worker[r].pc = "translate"

\* C7 (as claimed): no step of a worker thread changes a session variable:
\* the page counters of the translated pane, the progress bar, the buttons,
\* the page label and the boxes change in steps of the event loop only.
C7_OnlyEventLoopWrites ==
    [][ (\E r \in Runs : worker[r].pc # "unborn" /\ worker[r].pc' # worker[r].pc)
          => UNCHANGED << transVars, buttonVars, progress_bar, dialogs >> ]_vars

\* C8: when every page of the document yields non-blank direct text, neither
\* convert_from_path nor image_to_string is invoked.
C8_NoFallbackForTextPages ==
    \A r \in Runs :
        (\A k \in 1..Len(worker[r].doc.pages) : TextPage(worker[r].doc.pages[k]))
            => worker[r].rast = <<>> /\ worker[r].ocr = <<>>

\* C8 witness: a document of MaxPages text pages has been acquired.
C8_Witness ==
    \E r \in Runs :
        /\ Len(worker[r].doc.pages) = MaxPages
        /\ \A k \in 1..MaxPages : TextPage(worker[r].doc.pages[k])
        /\ worker[r].pc = "translate"

Occurrences(seq, x) == Cardinality({k \in 1..Len(seq) : seq[k] = x})

\* C9 (as claimed): for every page without non-blank direct text that was
\* processed without an error, recognition was invoked exactly once and the
\* page contributed the recognized text followed by a line break.
C9_RecognitionOncePerBlankPage ==
    \A r \in Runs :
        \A k \in 1..Len(worker[r].contrib) :
            LET p == worker[r].doc.pages[k]
            IN  ~TextPage(p) =>
                  /\ Occurrences(worker[r].ocr, k) = 1
                  /\ worker[r].contrib[k].add = OcrValue(p) \o <<NL>>

FallbackFails(p) ==
    ~TextPage(p) /\ (p.raster = "raise" \/ (p.raster = "image" /\ p.ocr = "raise"))

FailingPages(doc) == {k \in 1..Len(doc.pages) : FallbackFails(doc.pages[k])}

FirstFailure(doc) == CHOOSE k \in FailingPages(doc) : \A m \in FailingPages(doc) : k <= m

Cause(p) == IF p.raster = "raise" THEN "convert_from_path failed" ELSE "image_to_string failed"

\* C10: when rasterization or recognition fails on page j, acquisition never
\* returns a text, processes no page after j, reports no progress for page j
\* or a later page, and raises an error whose message carries j (1-based) and
\* the cause.
C10_FailureCarriesPage ==
    \A r \in Runs :
        LET w == worker[r]
        IN  FailingPages(w.doc) # {} =>
              LET j == FirstFailure(w.doc)
              IN  /\ "extract_ret" \notin {w.stages[k] : k \in 1..Len(w.stages)}
                  /\ w.i <= j
                  /\ \A k \in 1..Len(w.prog) : w.prog[k].page < j
                  /\ \A k \in 1..Len(w.rast) : w.rast[k] <= j
                  /\ \A k \in 1..Len(w.ocr) : w.ocr[k] <= j
                  /\ w.pc # "page" =>
                       /\ w.i = j
                       /\ w.err = << "Error extracting text from PDF: ",
                                     "Error during OCR on page ", ToString(j), ": ",
                                     Cause(w.doc.pages[j]) >>

\* C10 witness: recognition failed on the second page, after a first page
\* that was processed.
C10_Witness ==
    \E r \in Runs :
        /\ worker[r].pc = "except"
        /\ FailingPages(worker[r].doc) = {2}
        /\ worker[r].doc.pages[2].ocr = "raise"
        /\ Len(worker[r].prog) = 1

RECURSIVE Joined(_)
\* The contributions of the pages, concatenated in page order.
Joined(cs) == IF cs = <<>> THEN <<>> ELSE Head(cs).add \o Joined(Tail(cs))

\* Every page of the document of run r was processed without an error.
AllPagesProcessed(r) ==
    /\ worker[r].doc.readable
    /\ worker[r].pc \in {"translate", "except"}
    /\ worker[r].i = Len(worker[r].doc.pages) + 1

\* C11: extract_text_from_pdf never returns a blank text: when all pages were
\* processed and the concatenation is blank (a document without pages
\* included) it raises the no-text error, which is not wrapped as an
\* extraction error; otherwise it returns the non-blank concatenation.
C11_NeverReturnsBlank ==
    \A r \in Runs :
        /\ worker[r].pc = "translate" => NonBlank(worker[r].text)
        /\ AllPagesProcessed(r) =>
             IF NonBlank(Joined(worker[r].contrib))
             THEN /\ worker[r].pc = "translate"
                  /\ worker[r].text = Joined(worker[r].contrib)
             ELSE /\ worker[r].pc = "except"
                  /\ worker[r].err = <<"No text could be extracted from the PDF.">>

\* C11 witness: a document of MaxPages scanned pages whose recognized text is
\* whitespace only was rejected with the no-text error.
C11_Witness ==
    \E r \in Runs :
        /\ AllPagesProcessed(r)
        /\ Len(worker[r].doc.pages) = MaxPages
        /\ Len(worker[r].text) = 2 * MaxPages
        /\ worker[r].err = NoTextError

\* ------------------------------------------------ the translation library
\* argostranslate is a collaborator: translate.get_installed_languages()
\* returns one Language per code that occurs in an installed package, with
\* translations_from (the translations from that language) and
\* translations_to (the translations to that language).
Codes == {"en", "ko", "de"}

PackageUniverse == {p \in Codes \X Codes : p[1] # p[2]}

InstalledCodes(pk) == {p[1] : p \in pk} \cup {p[2] : p \in pk}

Language(c, pk) ==
    [ code |-> c,
      translations_from |-> {p \in pk : p[1] = c},
      translations_to |-> {p \in pk : p[2] = c} ]

get_installed_languages(pk) == {Language(c, pk) : c \in InstalledCodes(pk)}

\* Python's None where a Language is expected
NoneLanguage == [code |-> "None", translations_from |-> {}, translations_to |-> {}]

\* The loop of translate_text over installed_languages: the language with
\* that code, or None
FindLanguage(code, langs) ==
    IF \E l \in langs : l.code = code
    THEN CHOOSE l \in langs : l.code = code
    ELSE NoneLanguage

\* Mutant: the precondition fails only when both languages are missing.
BothResolveEither(fromObj, toObj) == fromObj # NoneLanguage \/ toObj # NoneLanguage

\* `if not from_lang_obj or not to_lang_obj: raise` -- passes when this holds
BothResolve(fromObj, toObj) == fromObj # NoneLanguage /\ toObj # NoneLanguage

\* "Error during translation: " + str(e)
TranslateError(msg) == <<"Error during translation: ", msg>>

NotInstalledMessage == "Translation packages for the selected language pair are not installed."

NoneTranslateMessage == "'NoneType' object has no attribute 'translate'"

NoneLanguageMessage == "'NoneType' object has no attribute"

RuntimeMessage == "translation runtime failed"

Raised(msg, origin) == [status |-> "raise", err |-> TranslateError(msg), origin |-> origin]

Returned(text, to) == [status |-> "return", text |-> <<to>> \o text]

\* The application as __init__ leaves it, before any event.
AppIdle ==
    /\ input_pdf_path = NoFile
    /\ original_current_page = 1
    /\ original_total_pages = 0
    /\ translated_current_page = 1
    /\ translated_total_pages = 0
    /\ translate_button = Normal
    /\ save_button = Disabled
    /\ prev_orig_button = Disabled
    /\ next_orig_button = Disabled
    /\ prev_trans_button = Disabled
    /\ next_trans_button = Disabled
    /\ progress_bar = Whole(0)
    /\ orig_page_label = <<0, 0>>
    /\ trans_page_label = <<0, 0>>
    /\ afterQueue = <<>>
    /\ dialogs = {}
    /\ callbackErrors = {}
    /\ outFile = [pages |-> 0, writing |-> FALSE]
    /\ evt = Idle
    /\ nruns = 0
    /\ worker = [r \in Runs |-> NewWorker]
    /\ previewOverlap = FALSE

\* translate_text(text, from_lang_code, to_lang_code) is called.  Whether
\* the library offers a translation without a package of its own (a pivot
\* through another language, the identity) depends on the library, and
\* whether the runtime's translate() fails on the input.
InitTranslate ==
    /\ AppIdle
    /\ packages \in SUBSET PackageUniverse
    /\ \E f \in Codes, t \in Codes, synth \in BOOLEAN, fails \in BOOLEAN :
         call = [ fn |-> "translate_text", pc |-> "lookup", text |-> <<"a">>,
                  from |-> f, to |-> t, synthesizes |-> synth, runtimeFails |-> fails,
                  fromObj |-> NoneLanguage, toObj |-> NoneLanguage,
                  translation |-> "unset", calls |-> 0, result |-> [status |-> "running"] ]

appVars == << input_pdf_path, origVars, transVars, buttonVars, progress_bar, afterQueue,
              dialogs, callbackErrors, outFile, evt, nruns, worker, previewOverlap >>

\* Lines 120-129: find both Language objects, raise when one is missing
TranslateLookup ==
    /\ call.fn = "translate_text"
    /\ call.pc = "lookup"
    /\ LET langs == get_installed_languages(packages)
           f == FindLanguage(call.from, langs)
           t == FindLanguage(call.to, langs)
       IN  call' = IF BothResolve(f, t)
                   THEN [call EXCEPT !.fromObj = f, !.toObj = t, !.pc = "path"]
                   ELSE [call EXCEPT !.fromObj = f, !.toObj = t, !.pc = "done",
                                     !.result = Raised(NotInstalledMessage, "check")]
    /\ UNCHANGED << appVars, packages >>

\* Line 130: translation = from_lang_obj.get_translation(to_lang_obj)
TranslateGetTranslation ==
    /\ call.fn = "translate_text"
    /\ call.pc = "path"
    /\ call' =
         IF call.fromObj = NoneLanguage \/ call.toObj = NoneLanguage
         THEN [call EXCEPT !.pc = "done", !.result = Raised(NoneLanguageMessage, "underlying")]
         ELSE IF <<call.from, call.to>> \in call.fromObj.translations_from
         THEN [call EXCEPT !.pc = "translate", !.translation = "package"]
         ELSE IF call.synthesizes
         THEN [call EXCEPT !.pc = "translate", !.translation = "synthesized"]
         ELSE [call EXCEPT !.pc = "translate", !.translation = "None"]
    /\ UNCHANGED << appVars, packages >>

\* Line 131: return translation.translate(text)
TranslateCall ==
    /\ call.fn = "translate_text"
    /\ call.pc = "translate"
    /\ call' =
         IF call.translation = "None"
         THEN [call EXCEPT !.pc = "done", !.result = Raised(NoneTranslateMessage, "underlying")]
         ELSE IF call.runtimeFails
         THEN [call EXCEPT !.pc = "done", !.calls = @ + 1,
                           !.result = Raised(RuntimeMessage, "underlying")]
         ELSE [call EXCEPT !.pc = "done", !.calls = @ + 1,
                           !.result = Returned(call.text, call.to)]
    /\ UNCHANGED << appVars, packages >>

NextTranslate ==
    \/ TranslateLookup
    \/ TranslateGetTranslation
    \/ TranslateCall

SpecTranslate == InitTranslate /\ [][NextTranslate]_vars

\* C12: when the source or the target code is not the code of an installed
\* language, translate_text raises the not-installed error and the runtime's
\* translate is never invoked.
C12_NotInstalledRejected ==
    (call.fn = "translate_text"
        /\ (call.from \notin InstalledCodes(packages) \/ call.to \notin InstalledCodes(packages)))
    => /\ call.calls = 0
       /\ call.pc \in {"lookup", "done"}
       /\ call.pc = "done" =>
            /\ call.result.status = "raise"
            /\ call.result.err =
                 << "Error during translation: ",
                    "Translation packages for the selected language pair are not installed." >>

\* C12 witness: a request whose target language is not installed, while the
\* source language is, has been rejected.
C12_Witness ==
    /\ call.fn = "translate_text"
    /\ call.pc = "done"
    /\ call.from \in InstalledCodes(packages)
    /\ call.to \notin InstalledCodes(packages)

\* C13 (as claimed): when both codes are installed languages and no package
\* translates from the source to the target, translate_text raises an error
\* of its own that is not the not-installed error (no exception of an
\* underlying call is passed on as for a runtime failure), returns no text
\* and never invokes a translation.
C13_UnavailableRejected ==
    (call.fn = "translate_text"
        /\ call.from \in InstalledCodes(packages)
        /\ call.to \in InstalledCodes(packages)
        /\ <<call.from, call.to>> \notin packages)
    => /\ call.calls = 0
       /\ call.pc = "done" =>
            /\ call.result.status = "raise"
            /\ call.result.origin = "check"
            /\ call.result.err # TranslateError(NotInstalledMessage)

\* --------------------------------------------------- create_translated_pdf
MaxText == 7

TextChars == {"a", " ", NL}

Whitespace == {" ", NL}

RECURSIVE SplitAcc(_, _)
\* str.split('\n\n'): separators are found left to right, without overlap
SplitAcc(rest, cur) ==
    IF rest = <<>> THEN <<cur>>
    ELSE IF Len(rest) >= 2 /\ rest[1] = NL /\ rest[2] = NL
         THEN <<cur>> \o SplitAcc(Tail(Tail(rest)), <<>>)
         ELSE SplitAcc(Tail(rest), Append(cur, Head(rest)))

Split(text) == SplitAcc(text, <<>>)

\* para.replace('\n', ' ')
ReplaceBreaks(para) == [k \in 1..Len(para) |-> IF para[k] = NL THEN " " ELSE para[k]]

RECURSIVE LStrip(_)
LStrip(s) == IF s # <<>> /\ Head(s) \in Whitespace THEN LStrip(Tail(s)) ELSE s

RECURSIVE RStrip(_)
RStrip(s) ==
    IF s # <<>> /\ s[Len(s)] \in Whitespace THEN RStrip(SubSeq(s, 1, Len(s) - 1)) ELSE s

\* str.strip()
Strip(s) == RStrip(LStrip(s))

\* Mutant: the candidate itself is tested, not the trimmed candidate.
KeepCandidateUntrimmed(para) == para # <<>>

\* `if para.strip():`
KeepCandidate(para) == Strip(para) # <<>>

ParagraphOf(para) == [kind |-> "Paragraph", text |-> Strip(para)]

\* Spacer(1, 12)
SpacerItem == [kind |-> "Spacer", width |-> 1, height |-> 12]

BuildError == <<"Error creating translated PDF: ", "build failed">>

InitCreate ==
    /\ AppIdle
    /\ packages = RequiredSet
    /\ \E t \in SeqsUpTo(TextChars, MaxText) :
         call = [ fn |-> "create_translated_pdf", pc |-> "split", text |-> t,
                  paragraphs |-> <<>>, k |-> 0, story |-> <<>>,
                  result |-> [status |-> "running"] ]

\* Lines 138-141: the template, the styles, the empty story, the split
CreateSplit ==
    /\ call.fn = "create_translated_pdf"
    /\ call.pc = "split"
    /\ call' = [call EXCEPT !.paragraphs = Split(call.text), !.k = 1, !.pc = "loop"]
    /\ UNCHANGED << appVars, packages >>

\* Lines 142-146: one round of the loop over the candidates
CreateParagraph ==
    /\ call.fn = "create_translated_pdf"
    /\ call.pc = "loop"
    /\ call.k <= Len(call.paragraphs)
    /\ LET para == ReplaceBreaks(call.paragraphs[call.k])
       IN  call' = [call EXCEPT
                      !.k = @ + 1,
                      !.story = IF KeepCandidate(para)
                                THEN @ \o <<ParagraphOf(para), SpacerItem>>
                                ELSE @]
    /\ UNCHANGED << appVars, packages >>

\* Lines 147-149: doc.build(story) writes the document or raises
CreateBuild ==
    /\ call.fn = "create_translated_pdf"
    /\ call.pc = "loop"
    /\ call.k > Len(call.paragraphs)
    /\ \E ok \in BOOLEAN :
         call' = [call EXCEPT
                    !.pc = "done",
                    !.result = IF ok THEN [status |-> "return", built |-> call.story]
                               ELSE [status |-> "raise", err |-> BuildError]]
    /\ UNCHANGED << appVars, packages >>

NextCreate ==
    \/ CreateSplit
    \/ CreateParagraph
    \/ CreateBuild

SpecCreate == InitCreate /\ [][NextCreate]_vars

RECURSIVE JoinBreaks(_)
\* The candidates with a double line break between neighbours.
JoinBreaks(cs) ==
    IF Len(cs) = 1 THEN cs[1] ELSE cs[1] \o <<NL, NL>> \o JoinBreaks(Tail(cs))

\* p is candidate c without its surrounding whitespace and with every line
\* break inside replaced by a space.
IsReflowOf(p, c) ==
    \E lo \in 1..Len(c), hi \in 1..Len(c) :
        /\ lo <= hi
        /\ c[lo] \notin {" ", NL}
        /\ c[hi] \notin {" ", NL}
        /\ \A j \in 1..Len(c) : (j < lo \/ j > hi) => c[j] \in {" ", NL}
        /\ Len(p) = hi - lo + 1
        /\ \A j \in 1..Len(p) : p[j] = IF c[lo + j - 1] = NL THEN " " ELSE c[lo + j - 1]

\* C14: once the loop of create_translated_pdf is over, the story holds, for
\* the non-blank candidates of the text in their order, the re-flowed and
\* trimmed candidate as a paragraph followed by one spacer, and nothing else;
\* while the loop runs the story is that of the candidates seen so far.
C14_ParagraphPerCandidate ==
    (call.fn = "create_translated_pdf" /\ call.pc \in {"loop", "done"})
    => LET cands == call.paragraphs
           seen == SubSeq(cands, 1, IF call.pc = "done" THEN Len(cands) ELSE call.k - 1)
           kept == SelectSeq(seen, NonBlank)
       IN  /\ JoinBreaks(cands) = call.text
           /\ \A k \in 1..Len(cands) :
                \A j \in 1..(Len(cands[k]) - 1) : ~(cands[k][j] = NL /\ cands[k][j + 1] = NL)
           /\ Len(call.story) = 2 * Len(kept)
           /\ \A k \in 1..Len(kept) :
                /\ call.story[2 * k - 1].kind = "Paragraph"
                /\ IsReflowOf(call.story[2 * k - 1].text, kept[k])
                /\ call.story[2 * k].kind = "Spacer"
           /\ (call.pc = "done" /\ ~NonBlank(call.text)) => call.story = <<>>
           /\ (call.pc = "done" /\ call.result.status = "return")
                => call.result.built = call.story

\* C14 witness: a text of three candidates, the middle one blank but not
\* empty, was turned into two paragraphs and two spacers.
C14_Witness ==
    /\ call.fn = "create_translated_pdf"
    /\ call.pc = "done"
    /\ Len(call.paragraphs) = 3
    /\ ~NonBlank(call.paragraphs[2])
    /\ call.paragraphs[2] # <<>>
    /\ Len(call.story) = 4

\* ----------------------------------------- install_required_language_pairs
MaxCalls == 2

MaxPkgs == 2

\* The sets of required pairs that differ from S0 in at most MaxPkgs pairs
Within(S0) ==
    {P \in SUBSET RequiredSet :
        Cardinality((P \ S0) \cup (S0 \ P)) <= MaxPkgs}

\* is_pair_installed(src, tgt, installed_langs): a translation in
\* lang.translations_to is a translation to lang, trans.to_lang is lang
is_pair_installed(src, tgt, installed_langs) ==
    \E lang \in installed_langs :
        /\ lang.code = src
        /\ \E trans \in lang.translations_to : trans[2] = tgt

NoPackage == <<"None", "None">>

\* Mutant: the package is looked up by its source code only.
FindPackageBySource(src, tgt, available_packages) ==
    IF \E pkg \in available_packages : pkg[1] = src
    THEN CHOOSE pkg \in available_packages : pkg[1] = src
    ELSE NoPackage

\* The loop over available_packages: the package with from_code = src and
\* to_code = tgt, or None
FindPackage(src, tgt, available_packages) ==
    IF \E pkg \in available_packages : pkg[1] = src /\ pkg[2] = tgt
    THEN CHOOSE pkg \in available_packages : pkg[1] = src /\ pkg[2] = tgt
    ELSE NoPackage

\* The process has not called the function yet.  The packages on disk and
\* the catalog of the server are what the environment provides.
InitInstall ==
    /\ AppIdle
    /\ packages \in Within({})
    /\ \E catalog \in Within(RequiredSet) :
         call = [ fn |-> "install_required_language_pairs", pc |-> "idle", n |-> 0,
                  catalog |-> catalog, available_packages |-> {}, installed_langs |-> {},
                  k |-> 0, before |-> {}, downloads |-> <<>>, installs |-> <<>>,
                  printed |-> {}, result |-> [status |-> "none"] ]

\* Lines 55-65: the index is updated (the network may fail), the catalog
\* and the installed languages are read
InstallBegin ==
    /\ call.fn = "install_required_language_pairs"
    /\ call.pc = "idle"
    /\ call.n < MaxCalls
    /\ \E ok \in BOOLEAN :
         call' = IF ok
                 THEN [call EXCEPT
                         !.pc = "loop", !.n = @ + 1, !.k = 1,
                         !.available_packages = call.catalog,
                         !.installed_langs = get_installed_languages(packages),
                         !.before = packages, !.downloads = <<>>, !.installs = <<>>,
                         !.printed = {}, !.result = [status |-> "running"]]
                 ELSE [call EXCEPT
                         !.n = @ + 1, !.before = packages, !.downloads = <<>>,
                         !.installs = <<>>, !.printed = {},
                         !.result = [status |-> "raise", kind |-> "library", at |-> "index"]]
    /\ UNCHANGED << appVars, packages >>

\* Lines 75-88: one round of the loop over required_pairs
InstallPair ==
    /\ call.fn = "install_required_language_pairs"
    /\ call.pc = "loop"
    /\ call.k <= Len(required_pairs)
    /\ LET src == required_pairs[call.k][1]
           tgt == required_pairs[call.k][2]
           found_package == FindPackage(src, tgt, call.available_packages)
       IN  IF is_pair_installed(src, tgt, call.installed_langs)
           THEN /\ call' = [call EXCEPT !.k = @ + 1]
                /\ UNCHANGED packages
           ELSE IF found_package # NoPackage
           THEN \E outcome \in {"ok", "download raises", "install raises"} :
                  IF outcome = "ok"
                  THEN /\ packages' = packages \cup {found_package}
                       /\ call' = [call EXCEPT
                                     !.k = @ + 1,
                                     !.downloads = Append(@, found_package),
                                     !.installs = Append(@, found_package),
                                     !.installed_langs = get_installed_languages(packages')]
                  ELSE /\ UNCHANGED packages
                       /\ call' = [call EXCEPT
                                     !.pc = "idle",
                                     !.downloads = IF outcome = "install raises"
                                                   THEN Append(@, found_package) ELSE @,
                                     !.result = [status |-> "raise", kind |-> "library",
                                                 at |-> outcome]]
           ELSE /\ call' = [call EXCEPT !.k = @ + 1, !.printed = @ \cup {<<src, tgt>>}]
                /\ UNCHANGED packages
    /\ UNCHANGED appVars

\* The loop is over: the function returns None
InstallReturn ==
    /\ call.fn = "install_required_language_pairs"
    /\ call.pc = "loop"
    /\ call.k > Len(required_pairs)
    /\ call' = [call EXCEPT !.pc = "idle", !.result = [status |-> "return"]]
    /\ UNCHANGED << appVars, packages >>

NextInstall ==
    \/ InstallBegin
    \/ InstallPair
    \/ InstallReturn

SpecInstall == InitInstall /\ [][NextInstall]_vars

InstallReturned ==
    /\ call.fn = "install_required_language_pairs"
    /\ call.pc = "idle"
    /\ call.result.status = "return"

\* C15 (as claimed): the function returns normally only if every required
\* pair is installed then, and a call that finds a required pair neither
\* installed nor in the catalog ends with the ResourceUnavailable failure.
C15_ReturnsOnlyIfAllInstalled ==
    /\ InstallReturned => RequiredSet \subseteq packages
    /\ (call.fn = "install_required_language_pairs" /\ call.printed # {})
         => call.pc = "idle" /\ call.result.status = "raise"
                /\ call.result.kind = "ResourceUnavailable"

\* C15 (amended): the function fails only where the index update, a download
\* or an install fails, never with ResourceUnavailable.  When it returns,
\* every required pair of the catalog is installed; a required pair the
\* catalog does not offer is as it was before the call and, when it was not
\* installed, has been reported by the printed message.
C15_InstallsWhatCatalogOffers ==
    /\ call.fn = "install_required_language_pairs" /\ call.result.status = "raise"
         => call.result.kind = "library"
    /\ InstallReturned =>
         \A p \in RequiredSet :
            /\ p \in call.catalog => p \in packages
            /\ p \notin call.catalog =>
                 /\ p \in packages <=> p \in call.before
                 /\ p \notin call.before => p \in call.printed
    /\ InstallReturned => packages \subseteq call.before \cup RequiredSet

\* C15 witness: the function returned although a required pair that the
\* catalog does not offer is still missing, after installing another pair.
C15_Witness ==
    /\ InstallReturned
    /\ call.printed # {}
    /\ ~(RequiredSet \subseteq packages)
    /\ packages # call.before

\* C16 (as claimed): no pair that was installed when the function was
\* invoked is downloaded or installed by it, and a second invocation that
\* returns leaves the installed packages as they were.
C16_Idempotent ==
    call.fn = "install_required_language_pairs" =>
        /\ \A j \in 1..Len(call.downloads) : call.downloads[j] \notin call.before
        /\ \A j \in 1..Len(call.installs) : call.installs[j] \notin call.before
        /\ (call.n = MaxCalls /\ InstallReturned) => packages = call.before

\* ------------------------------------------------------------- liveness
\* A step of the worker thread of run r.  The thread is scheduled by the
\* interpreter whatever the event loop does, and none of its statements
\* waits for the event loop.
WorkerStep(r) ==
    \/ WorkerBegin(r)
    \/ ExtractPage(r)
    \/ ExtractEnd(r)
    \/ TranslateText(r)
    \/ RenderBegin(r)
    \/ RenderReturn(r)
    \/ RenderRaise(r)
    \/ CountPages(r)
    \/ SetPage(r)
    \/ EnqueuePreview(r)
    \/ EnqueueButtons(r)
    \/ Except(r)
    \/ ExceptEnd(r)
    \/ Finally(r)

\* The event loop runs the callback at the head of the timer queue.
CallbackStep ==
    \/ ApplyProgress
    \/ ShowSuccess
    \/ ShowError
    \/ PreviewCallback
    \/ ConfigPrevTrans
    \/ ConfigNextTrans
    \/ ConfigSave
    \/ ConfigTranslate

\* mainloop() keeps serving: a handler that has begun ends, and a callback
\* registered with after(0, ...) is run however often the user clicks.
Fairness ==
    /\ \A r \in Runs : WF_vars(WorkerStep(r))
    /\ WF_vars(TranslatedStore)
    /\ SF_vars(CallbackStep)

SpecLive == Init /\ [][Next]_vars /\ Fairness

\* C17: every run, whether it succeeds or fails in a stage, is followed by a
\* state in which the Translate button is enabled; and the button is enabled
\* only when no run has a notification left to enqueue (the thread of every
\* run started so far has executed its finally clause).
C17_TranslateReenabled ==
    /\ \A r \in Runs : Active(r) ~> (translate_button = Normal /\ ~Active(r))
    /\ [](\A r \in Runs : Active(r) => translate_button = Disabled)

\* C17 witness: a run that failed has ended, its callbacks have all run and
\* the Translate button is enabled again.
C17_Witness ==
    /\ worker[1].pc = "done"
    /\ Failed(1)
    /\ ~Pending(1)
    /\ nruns = 1
    /\ translate_button = Normal

\* C18 (as claimed): the Save button is enabled only if no run is active and
\* the most recent run went through all its stages without a failure.
C18_SaveOnlyWhenIdle ==
    save_button = Normal =>
        /\ \A r \in Runs : ~Active(r)
        /\ nruns >= 1
        /\ worker[nruns].stages = StageOrder
        /\ ~Failed(nruns)

\* C18 (amended): the Save button is enabled only if the most recent run has
\* got through all its stages without a failure, the output is not being
\* written, no other run is active, and the thread of that run has nothing
\* left to do but its finally clause.  It is disabled before the first run.
C18_SaveOnlyAfterSuccess ==
    /\ nruns = 0 => save_button = Disabled
    /\ save_button = Normal =>
        /\ nruns >= 1
        /\ worker[nruns].stages = StageOrder
        /\ ~Failed(nruns)
        /\ worker[nruns].pc \in {"finally", "done"}
        /\ ~outFile.writing
        /\ \A r \in Runs : r # nruns => ~Active(r)
    /\ \A r \in Runs : (Active(r) /\ worker[r].pc # "finally") => save_button = Disabled
    /\ \A k \in 1..Len(afterQueue) :
         afterQueue[k].fn = "save_button" => afterQueue[k].run = nruns

\* C18 witness: the Save button was enabled by the second run while its
\* thread had not yet executed the finally clause.
C18_Witness ==
    /\ nruns = 2
    /\ save_button = Normal
    /\ worker[2].pc = "finally"

\* C19 (as claimed): in each pane, whenever the pane has at least one page,
\* the current page is between 1 and the number of pages.
C19_CurrentPageInRange ==
    /\ original_total_pages >= 1 =>
         (1 <= original_current_page /\ original_current_page <= original_total_pages)
    /\ translated_total_pages >= 1 =>
         (1 <= translated_current_page /\ translated_current_page <= translated_total_pages)

\* C20 (as claimed): display_translated_preview never reads the output
\* document while create_translated_pdf is writing it.
C20_NoReadDuringRender == ~previewOverlap

====
